---- MODULE Spec2Model ----
(***************************************************************************)
(* The request admission and forwarding pipeline of proxy-edith: the ten   *)
(* edge handlers found in the repository, modelled as one state machine    *)
(* whose deployed handler is fixed by Init.                                *)
(*                                                                         *)
(* Strings that the code searches, splits or reflects (header values, the  *)
(* request URL) are sequences of segments, so that includes() and split()  *)
(* are computed and not assumed.  The empty sequence is the absent (null,  *)
(* or empty and therefore falsy) value.  Bodies are sequences of bytes,    *)
(* one byte per chunk on a streamed body.                                  *)
(***************************************************************************)
EXTENDS Integers, Sequences, FiniteSets, TLC

VARIABLES
    handler,            \* the deployed route module
    API_KEY,            \* process.env.API_KEY / API_KEY_to / MISTRAL_API_KEY
    now,                \* Date.now()
    ipLastRequestMap,   \* cooldown gate: key -> last stamp (0 = no entry)
    requestTimes,       \* rejecting limiter: key -> last admitted (0 = no entry)
    ipRequestCountMap,  \* abuse counter: key -> {count, firstRequestTime}
    req                 \* the in-flight invocations of handler(req), per slot

vars == <<handler, API_KEY, now, ipLastRequestMap, requestTimes, ipRequestCountMap, req>>

-----------------------------------------------------------------------------
(* Bounds of the model *)

MaxTicks == 2
MaxSlots == 2
MaxChunks == 3

\* How many of a request's inputs (and its upstream outcome) differ from the
\* plain request at once.
MaxDeviations == 2

-----------------------------------------------------------------------------
(* The handlers *)

Handlers ==
    { "part_000", "part_001", "part_002", "mistral_1", "mistral_2",
      "together_1", "together_2", "cerebras_1", "cerebras_2", "cerebras_3" }

\* Handlers whose module refuses to load without API_KEY.
RequiresApiKey == { "part_001", "part_002", "cerebras_2" }

HandlesOptions == { "mistral_1", "together_1", "cerebras_2" }

ChecksOrigin == { "part_001", "part_002", "cerebras_2" }

ChecksBan == { "part_001", "part_002", "together_1", "cerebras_2" }

SplitsForwardedFor == { "part_001", "cerebras_2" }

UsesCooldown ==
    { "part_002", "mistral_1", "mistral_2", "together_1", "together_2",
      "cerebras_1", "cerebras_3" }

UsesRateLimit == { "part_001", "cerebras_2" }

CountsRequests == { "part_002", "together_1" }

ClientSuppliedKey == { "mistral_1", "mistral_2" }

\* Handlers that read the request body with req.text() before the dispatch.
ReadsRequestText == { "part_001", "part_002", "cerebras_1", "cerebras_2", "cerebras_3" }

\* Handlers that read the response body with response.text().
ReadsResponseText == { "part_001", "part_002", "cerebras_1", "cerebras_2" }

\* Handlers that call logToSupabase without awaiting it.
FireAndForgetLog == { "part_001", "cerebras_2" }

RATE_LIMIT_DURATION(h) ==
    CASE h = "together_2" -> 10000
      [] h = "cerebras_2" -> 200
      [] OTHER -> 1000

MONITOR_PERIOD == 5 * 60 * 1000

NOTIFY_THRESHOLD == 10

\* The clock is observed at half the gate's duration.
TickMs(h) == RATE_LIMIT_DURATION(h) \div 2

\* setTimeout(resolve, waitTime) counts on the runtime's timer clock, the
\* stamps are Date.now(): the callback of a timer may read a Date.now() that
\* is this much short of the time the timer was set for.
TimerSlack == 1

StartTime == 2 * MONITOR_PERIOD

-----------------------------------------------------------------------------
(* Strings *)

Null == << >>

S(x) == << x >>

\* String.prototype.includes
Includes(hay, needle) ==
    \E i \in 1..(Len(hay) - Len(needle) + 1) :
        SubSeq(hay, i, i + Len(needle) - 1) = needle

\* Headers: a function from the (lower-case) names present to their values.
NoHeaders == [n \in {} |-> Null]

HGet(hs, name) == IF name \in DOMAIN hs THEN hs[name] ELSE Null

HSet(hs, name, val) ==
    [n \in DOMAIN hs \cup {name} |-> IF n = name THEN val ELSE hs[n]]

HDelete(hs, name) == [n \in DOMAIN hs \ {name} |-> hs[n]]

\* Headers built from an object literal, or one Headers object laid over another.
HMerge(over, under) ==
    [n \in DOMAIN over \cup DOMAIN under |->
        IF n \in DOMAIN over THEN over[n] ELSE under[n]]

-----------------------------------------------------------------------------
(* Inbound requests *)

BANNED_IP == S("194.191.253.202")

OtherHop == "10.0.0.7"

UnknownIP == S("unknown-ip")

\* x-forwarded-for values, as the list of hops the header names.
ForwardedFors == { Null, BANNED_IP, S("203.0.113.9"), <<"194.191.253.202", OtherHop>> }

GoodOrigin == <<"https://", "chat.", "gaurish.xyz">>

EvilOrigin == <<"https://", "x.example">>

Origins == { Null, GoodOrigin, EvilOrigin }

Referers == { Null, <<"https://", "gaurish.xyz", "/app">> }

ClientToken == "sk-client"

Authorizations == { Null, <<"Bearer ", ClientToken>> }

\* Method and body: GET and OPTIONS carry no body.
MethodBodies ==
    { <<"GET", Null>>, <<"OPTIONS", Null>>, <<"POST", <<65>>>>, <<"POST", <<65, 255>>>> }

\* The route a handler is mounted on, as it appears in req.url.
Route(h) ==
    CASE h \in {"mistral_1", "mistral_2"} -> "/api/mistral/"
      [] h \in {"together_1", "together_2"} -> "/api/together/"
      [] OTHER -> "/api/cerebras/"

\* req.url, as new URL(req.url) takes it apart.
Url(base, pathname, search) == [base |-> base, pathname |-> pathname, search |-> search]

\* The whole of req.url as one string.
Href(u) == <<u.base>> \o u.pathname \o u.search

FullUrl(h) == Url("https://gw.example", <<Route(h), "v1/chat">>, S("?stream=1"))

Urls(h) == { FullUrl(h), Url("https://gw.example", <<Route(h)>>, Null) }

MkHeaders(xff, origin, referer, auth) ==
    [n \in { m \in {"x-forwarded-for", "origin", "referer", "authorization"} :
                CASE m = "x-forwarded-for" -> xff # Null
                  [] m = "origin" -> origin # Null
                  [] m = "referer" -> referer # Null
                  [] OTHER -> auth # Null } |->
        CASE n = "x-forwarded-for" -> xff
          [] n = "origin" -> origin
          [] n = "referer" -> referer
          [] OTHER -> auth]

\* The hop-by-hop headers a client may send.
HopHeaders ==
    [n \in {"connection", "transfer-encoding"} |->
        IF n = "connection" THEN S("keep-alive") ELSE S("chunked")]

HopByHops == { NoHeaders, HopHeaders }

AllRequests(h) ==
    { [method |-> mb[1], body |-> mb[2], url |-> u,
       headers |-> HMerge(hop, MkHeaders(x, o, rf, a))] :
        mb \in MethodBodies, u \in Urls(h), x \in ForwardedFors,
        o \in Origins, rf \in Referers, a \in Authorizations, hop \in HopByHops }

\* The plain request: a POST of one byte from the allow-listed origin.
PlainRequest(h, xff) ==
    [method |-> "POST", body |-> <<65>>, url |-> FullUrl(h),
     headers |-> MkHeaders(xff, GoodOrigin, Null, Null)]

Differs(a, b) == IF a = b THEN 0 ELSE 1

\* In how many inputs q differs from the plain request.
Deviations(h, q) ==
    LET p == PlainRequest(h, Null) IN
      Differs(<<q.method, q.body>>, <<p.method, p.body>>)
    + Differs(q.url, p.url)
    + Differs(HGet(q.headers, "x-forwarded-for"), Null)
    + Differs(HGet(q.headers, "origin"), GoodOrigin)
    + Differs(HGet(q.headers, "referer"), Null)
    + Differs(HGet(q.headers, "authorization"), Null)
    + Differs(HGet(q.headers, "connection"), Null)

Requests(h) == { q \in AllRequests(h) : Deviations(h, q) <= MaxDeviations }

\* The requests of the concurrency specification: one shape, two client keys.
PlainRequests(h) == { PlainRequest(h, x) : x \in { Null, S("203.0.113.9") } }

-----------------------------------------------------------------------------
(* ClientKeyExtractor and AccessControl *)

\* One key for every client.
clientIP_shared(h, q) == UnknownIP

\* req.headers.get('x-forwarded-for') || 'unknown-ip', with ?.split(',')[0]
\* in the two handlers that take the first hop.
clientIP(h, q) ==
    LET xff == HGet(q.headers, "x-forwarded-for") IN
    IF xff = Null THEN UnknownIP
    ELSE IF h \in SplitsForwardedFor THEN S(xff[1]) ELSE xff

BANNED_IPS(h) == IF h \in ChecksBan THEN { BANNED_IP } ELSE {}

\* A ban check that matches nothing.
isBannedIP_never(h, ip) == FALSE

isBannedIP(h, ip) == ip \in BANNED_IPS(h)

\* The substrings the origin check accepts (hard-coded in the condition).
AllowedOrigins(h) ==
    CASE h \in {"part_001", "part_002"} -> { <<"chat.", "gaurish.xyz">>, <<"gaurish.xyz">> }
      [] h = "cerebras_2" ->
            { <<"chat.", "gaurish.xyz">>, <<"gaurish.xyz">>, <<"mvp-edith.vercel.app">> }
      [] OTHER -> {}

\* A host that prefers the Referer header.
originHost_refererFirst(q) ==
    IF HGet(q.headers, "referer") # Null
    THEN HGet(q.headers, "referer") ELSE HGet(q.headers, "origin")

\* const host = origin || referer
originHost(q) ==
    IF HGet(q.headers, "origin") # Null
    THEN HGet(q.headers, "origin") ELSE HGet(q.headers, "referer")

\* An origin check that lets a request with neither Origin nor Referer pass.
originDenied_absentPasses(h, q) ==
    /\ h \in ChecksOrigin
    /\ originHost(q) # Null
    /\ \A a \in AllowedOrigins(h) : ~Includes(originHost(q), a)

\* The condition of the origin check: TRUE when the request is refused.
originDenied(h, q) ==
    /\ h \in ChecksOrigin
    /\ \A a \in AllowedOrigins(h) : ~Includes(originHost(q), a)

-----------------------------------------------------------------------------
(* HeaderTransform: the CORS response headers *)

Star == S("*")

AllMethods == S("GET, POST, PUT, DELETE, OPTIONS")

EdithOrigin == <<"https://", "mvp-edith.vercel.app">>

\* mistral/[...path].ts: the request's own origin is reflected.
getCorsHeaders(origin) ==
    [n \in { "access-control-allow-credentials", "access-control-allow-methods",
             "access-control-allow-headers", "access-control-allow-origin" } |->
        CASE n = "access-control-allow-credentials" -> S("true")
          [] n = "access-control-allow-methods" -> AllMethods
          [] n = "access-control-allow-headers" ->
                S("Authorization, Content-Type, OpenAI-Beta, OpenAI-Organization, User-Agent, Accept, Origin, Referer, Client-Sdk, X-Requested-With, x-stainless-arch, x-stainless-lang")
          [] OTHER -> IF origin # Null THEN origin ELSE Star]

\* together/[...path].ts (first module): origin is read and not used.
corsHeaders(q) ==
    [n \in { "access-control-allow-origin", "access-control-allow-methods",
             "access-control-allow-headers", "access-control-allow-credentials",
             "access-control-max-age" } |->
        CASE n = "access-control-allow-origin" -> Star
          [] n = "access-control-allow-methods" -> AllMethods
          [] n = "access-control-allow-headers" ->
                S("Content-Type, Authorization, X-Requested-With")
          [] n = "access-control-allow-credentials" -> S("true")
          [] OTHER -> S("86400")]

\* cerebras/[...path].ts (second module): preflight and forwarded responses.
EdithCors ==
    [n \in { "access-control-allow-origin", "access-control-allow-methods",
             "access-control-allow-headers", "access-control-allow-credentials" } |->
        CASE n = "access-control-allow-origin" -> EdithOrigin
          [] n = "access-control-allow-methods" -> AllMethods
          [] n = "access-control-allow-headers" -> S("Content-Type, Authorization")
          [] OTHER -> S("true")]

\* Allow-everything headers set on forwarded responses.
StarCorsWithCredentials ==
    [n \in { "access-control-allow-origin", "access-control-allow-methods",
             "access-control-allow-headers", "access-control-allow-credentials" } |->
        IF n = "access-control-allow-credentials" THEN S("true") ELSE Star]

\* Allow-everything headers of the denial and error responses.
StarCors ==
    [n \in { "access-control-allow-origin", "access-control-allow-methods",
             "access-control-allow-headers" } |-> Star]

JsonType == [n \in {"content-type"} |-> S("application/json")]

TextType == [n \in {"content-type"} |-> S("text/plain")]

\* The CORS headers a handler lays over the upstream's response headers.
SuccessCors(h, q) ==
    CASE h = "mistral_1" -> getCorsHeaders(HGet(q.headers, "origin"))
      [] h = "together_1" -> corsHeaders(q)
      [] h = "cerebras_2" -> EdithCors
      [] h \in {"part_001", "part_002", "cerebras_1", "cerebras_3"} -> StarCorsWithCredentials
      [] OTHER -> NoHeaders

\* The headers of the handler's own 500 (and, in mistral, 401) responses.
ErrorHeaders(h, q) ==
    CASE h = "mistral_1" ->
            HSet(getCorsHeaders(HGet(q.headers, "origin")), "content-type", S("application/json"))
      [] h = "together_1" ->
            HSet(HMerge(corsHeaders(q), JsonType), "x-proxy-diagnostic", S("diagnosticInfo"))
      [] h \in {"part_001", "part_002", "cerebras_2"} -> HMerge(StarCors, JsonType)
      [] OTHER -> JsonType

-----------------------------------------------------------------------------
(* Responses *)

NoBody == [kind |-> "none", text |-> "", bytes |-> Null]

TextBody(t) == [kind |-> "text", text |-> t, bytes |-> Null]

BytesBody(b) == [kind |-> "bytes", text |-> "", bytes |-> b]

\* A live ReadableStream: what the client reads is req[r].delivered.
StreamBody == [kind |-> "stream", text |-> "", bytes |-> Null]

\* JSON.stringify({ error: message })
ErrorJson(message) == TextBody("{\"error\":\"" \o message \o "\"}")

\* together/[...path].ts (first module): the 500 body also carries diagnostics.
DiagnosticJson ==
    TextBody("{\"error\":\"Internal Server Error\",\"diagnostics\":[...]}")

\* new Response(body, { status, headers }): a body that is a string brings its
\* type along when the headers given name none.
Response(status, headers, body) ==
    [status |-> status,
     headers |-> IF body.kind \in {"text", "bytes"} /\ "content-type" \notin DOMAIN headers
                 THEN HSet(headers, "content-type", S("text/plain;charset=UTF-8"))
                 ELSE headers,
     body |-> body]

NoResponse == Response(0, NoHeaders, NoBody)

\* TextDecoder('utf-8') followed by the UTF-8 encoding of the string: a byte
\* that cannot occur in UTF-8 comes back as U+FFFD (EF BF BD).
RECURSIVE Utf8RoundTrip(_)
Utf8RoundTrip(bytes) ==
    IF bytes = Null THEN Null
    ELSE (IF Head(bytes) < 128 THEN <<Head(bytes)>> ELSE <<239, 191, 189>>)
            \o Utf8RoundTrip(Tail(bytes))

-----------------------------------------------------------------------------
(* HeaderTransform and UpstreamDispatcher: the request sent upstream *)

\* String.prototype.split on a separator that is one segment.
RECURSIVE SplitSeq(_, _)
SplitSeq(str, sep) ==
    IF str = Null THEN << Null >>
    ELSE IF Head(str) = sep THEN << Null >> \o SplitSeq(Tail(str), sep)
    ELSE LET rest == SplitSeq(Tail(str), sep)
         IN  << <<Head(str)>> \o rest[1] >> \o Tail(rest)

\* x.split(sep)[1], Null when there is no such piece (undefined).
SplitSecond(str, sep) ==
    LET pieces == SplitSeq(str, sep) IN IF Len(pieces) >= 2 THEN pieces[2] ELSE Null

\* `${x}` of a value that may be undefined.
Template(str, sep) ==
    LET pieces == SplitSeq(str, sep) IN IF Len(pieces) >= 2 THEN pieces[2] ELSE S("undefined")

\* String.prototype.replace(segment, ''): the first occurrence only.
RECURSIVE RemoveFirst(_, _)
RemoveFirst(str, seg) ==
    IF str = Null THEN Null
    ELSE IF Head(str) = seg THEN Tail(str)
    ELSE <<Head(str)>> \o RemoveFirst(Tail(str), seg)

TARGET_BASE_URL == "https://upstream.example"

MISTRAL_BASE_URL == "https://api.mistral.ai/v1"

\* The path the handler extracts from the request URL.
path(h, q) ==
    CASE h \in {"mistral_1", "mistral_2"} -> Template(q.url.pathname, Route(h))
      [] h = "together_1" -> RemoveFirst(q.url.pathname, "/api/proxy")
      [] OTHER -> Template(Href(q.url), Route(h))

\* if (!path) throw new Error('Invalid path')
invalidPath(h, q) ==
    /\ h \in {"part_001", "part_002", "cerebras_2"}
    /\ SplitSecond(Href(q.url), Route(h)) = Null

targetUrl(h, q) ==
    CASE h \in {"mistral_1", "mistral_2"} -> <<MISTRAL_BASE_URL, "/">> \o path(h, q)
      [] h = "together_1" -> <<TARGET_BASE_URL>> \o path(h, q) \o q.url.search
      [] OTHER -> <<TARGET_BASE_URL, "/">> \o path(h, q)

\* The secret the upstream Authorization header carries (Null: none resolved).
apiKey(h, q, key) ==
    IF h \in ClientSuppliedKey
    THEN LET token == SplitSecond(HGet(q.headers, "authorization"), "Bearer ")
         IN  IF token # Null THEN token ELSE key
    ELSE IF key # Null THEN key ELSE S("undefined")

upstreamHeaders(h, q, key) ==
    LET h1 == HSet(q.headers, "authorization", <<"Bearer ">> \o apiKey(h, q, key))
        h2 == HSet(h1, "host", S("upstream"))
        h3 == IF h \in {"part_000", "together_1"} THEN h2
              ELSE HSet(h2, "content-type", S("application/json"))
        h4 == IF h = "together_2" THEN HSet(h3, "access-control-allow-origin", Star) ELSE h3
    IN  IF h = "together_1" THEN h4
        ELSE HDelete(HDelete(h4, "connection"), "transfer-encoding")

\* The body handed to fetch: the inbound stream, or the text read from it.
upstreamBody(h, q) ==
    IF h \in ReadsRequestText /\ h # "cerebras_3" THEN Utf8RoundTrip(q.body) ELSE q.body

\* fetch() refuses the request before anything is sent: a body (even '') on
\* GET, or a request stream that req.text() has already consumed.
fetchRefuses(h, q) ==
    \/ h = "cerebras_1" /\ q.method = "GET"
    \/ h = "cerebras_3" /\ q.body # Null

NoSent == [url |-> Null, method |-> "", headers |-> NoHeaders, body |-> Null]

Sent(h, q, key) ==
    [url |-> targetUrl(h, q), method |-> q.method,
     headers |-> upstreamHeaders(h, q, key), body |-> upstreamBody(h, q)]

\* What the handler does between the gate and the await of fetch().
Dispatch(h, q, key) ==
    LET none == [kind |-> "fetch", msg |-> "", resp |-> NoResponse, sent |-> NoSent] IN
    IF invalidPath(h, q) THEN [none EXCEPT !.kind = "throw", !.msg = "Invalid path"]
    ELSE IF h \in ClientSuppliedKey /\ apiKey(h, q, key) = Null
    THEN [none EXCEPT !.kind = "respond",
                      !.resp = Response(401,
                                 IF h = "mistral_1" THEN ErrorHeaders(h, q) ELSE JsonType,
                                 ErrorJson("API key is required"))]
    ELSE IF fetchRefuses(h, q) THEN [none EXCEPT !.kind = "throw", !.msg = "TypeError"]
    ELSE [none EXCEPT !.sent = Sent(h, q, key)]

-----------------------------------------------------------------------------
(* The upstream *)

JsonContent == S("application/json")

EventStream == <<"text/event-", "stream">>

\* The i-th byte the upstream sends: 'A', an octet no UTF-8 text holds, 'B'.
ByteAt(i) == CASE i % 3 = 1 -> 65 [] i % 3 = 2 -> 255 [] OTHER -> 66

Chunks(n) == [i \in 1..n |-> ByteAt(i)]

UpstreamHeaders(ctype) ==
    IF ctype = Null THEN NoHeaders
    ELSE IF ctype = EventStream
    THEN [n \in {"content-type", "transfer-encoding"} |->
            IF n = "content-type" THEN ctype ELSE S("chunked")]
    ELSE [n \in {"content-type"} |-> ctype]

\* What fetch() settles with: a rejection (ok = FALSE) or a response.
Outcome(ok, status, ctype, hasBody, chunks) ==
    [ok |-> ok, status |-> status, headers |-> UpstreamHeaders(ctype),
     hasBody |-> hasBody, chunks |-> chunks]

TransportError == Outcome(FALSE, 0, Null, FALSE, Null)

NoOutcome == Outcome(FALSE, 1, Null, FALSE, Null)

UpstreamOutcomes ==
    { TransportError }
    \cup { Outcome(TRUE, 404, JsonContent, TRUE, Chunks(n)) : n \in 1..2 }
    \cup { Outcome(TRUE, 200, ct, FALSE, Null) : ct \in {Null, JsonContent, EventStream} }
    \cup { Outcome(TRUE, 200, ct, TRUE, Chunks(n)) :
             ct \in {Null, JsonContent, EventStream}, n \in 0..MaxChunks }

PlainOutcomes == { Outcome(TRUE, 200, JsonContent, TRUE, Chunks(1)) }

\* response.headers.get('content-type')?.includes('stream')
isStreaming(o) == Includes(HGet(o.headers, "content-type"), S("stream"))

\* The headers of the relayed response.
responseHeaders(h, q, o) ==
    LET merged == HMerge(SuccessCors(h, q), o.headers) IN
    IF h = "together_1" THEN HSet(merged, "x-proxy-diagnostic", S("diagnosticInfo"))
    ELSE HDelete(HDelete(merged, "transfer-encoding"), "connection")

\* The identity TransformStream the streamed body is piped through.
transform(chunk) == chunk

-----------------------------------------------------------------------------
(* One invocation of handler(req) *)

Slots == 1..MaxSlots

Keys ==
    {UnknownIP} \cup (ForwardedFors \ {Null}) \cup { S(x[1]) : x \in ForwardedFors \ {Null} }

\* The abuse counter's entry of a key that has none.
NoCount == [count |-> 0, firstRequestTime |-> 0]

AuditRecord(status, body, error) ==
    [response_status |-> status, response_body |-> body, error |-> error]

\* What an invocation that awaits countryPromise goes on to do: handleError
\* with a status and a message, or (status 0) the relay of the upstream reply.
NoError == [status |-> 0, message |-> ""]

IdleReq ==
    [pc |-> "idle",
     q |-> [method |-> "", body |-> Null, url |-> Url("", Null, Null), headers |-> NoHeaders],
     ip |-> Null,          \* clientIP
     startTime |-> 0,      \* Date.now() at the entry of handler
     lastRequestTime |-> 0,\* the stamp the gate read for this request
     wakeAt |-> 0,         \* when the cooldown timer is due
     stamped |-> 0,        \* the time the gate recorded for this request
     currentTime |-> 0,    \* Date.now() as "Track request count" read it
     seen |-> NoCount,     \* the counter entry "Track request count" read
     stored |-> NoCount,   \* the counter entry it stored
     sent |-> << >>,       \* the requests dispatched upstream
     dispatchedAt |-> 0,   \* Date.now() at the call of fetch()
     up |-> NoOutcome,     \* what fetch() settled with
     arrived |-> 0,        \* how many chunks of its body the upstream has sent
     resp |-> NoResponse,  \* the Response returned to the platform
     delivered |-> Null,   \* the chunks the client has read from a streamed body
     closed |-> FALSE,     \* the streamed body has ended
     logs |-> << >>,       \* the rows handed to the audit sink
     pending |-> NoResponse,
     sinkMode |-> "",
     thrown |-> FALSE,     \* the handler rejected: the exception reached the platform
     caught |-> NoError,   \* the error that waits for countryPromise
     notes |-> 0]          \* calls of notifyAdmin

\* The shared maps together with the invocation being stepped.
World(rec) ==
    [last |-> ipLastRequestMap, times |-> requestTimes,
     counts |-> ipRequestCountMap, rec |-> rec]

\* return new Response(...)
Deliver(w, resp) ==
    [w EXCEPT !.rec.resp = resp,
              !.rec.pc = IF resp.body.kind = "stream" THEN "streaming" ELSE "done"]

\* await of the audit insert; mode says what guards it.
LogAwait(w, mode, entry, resp) ==
    [w EXCEPT !.rec.logs = Append(@, entry), !.rec.pc = "logging",
              !.rec.sinkMode = mode, !.rec.pending = resp]

\* logToSupabase(...) without await, then the return.
LogForget(w, entry, resp) ==
    Deliver([w EXCEPT !.rec.logs = Append(@, entry)], resp)

\* handleError of part_001 and of the second cerebras module.
handleError(w, status, errorMessage) ==
    LET body == ErrorJson(errorMessage)
        w1 == [w EXCEPT !.rec.notes = @ + 1]
    IN  LogForget(w1, AuditRecord(status, body, errorMessage),
                  Response(status, HMerge(StarCors, JsonType), body))

\* const country = await countryPromise: the lookup started at the entry of
\* the handler is awaited before handleError and before notifyAdmin.
AwaitCountry(w, status, errorMessage) ==
    [w EXCEPT !.rec.pc = "locating",
              !.rec.caught = [status |-> status, message |-> errorMessage]]

\* return handleError(...), after the await of countryPromise where the
\* handler looks the country up.
Deny(h, w, status, errorMessage) ==
    IF h = "part_001" THEN AwaitCountry(w, status, errorMessage)
    ELSE handleError(w, status, errorMessage)

\* The catch block.
Fail(h, w, msg) ==
    LET q == w.rec.q
        body == IF h = "together_1" THEN DiagnosticJson ELSE ErrorJson("Internal Server Error")
        resp == Response(500, ErrorHeaders(h, q), body)
    IN  CASE h \in FireAndForgetLog -> Deny(h, w, 500, "Internal Server Error")
          [] h = "part_002" -> LogAwait(w, "caught", AuditRecord(500, body, msg), resp)
          [] h = "cerebras_1" -> LogAwait(w, "caught", AuditRecord(500, body, ""), resp)
          [] h = "cerebras_3" -> LogAwait(w, "bare", AuditRecord(0, NoBody, msg), resp)
          [] OTHER -> Deliver(w, resp)

-----------------------------------------------------------------------------
(* RateLimiter *)

\* waitForCooldown up to its await: the time to wait, 0 when there is none.
waitTime(h, last, ip, t) ==
    LET timeElapsed == t - last[ip] IN
    IF timeElapsed < RATE_LIMIT_DURATION(h) THEN RATE_LIMIT_DURATION(h) - timeElapsed ELSE 0

\* A limiter that still rejects when exactly the window has passed.
isRateLimited_inclusive(h, times, ip, t) == t - times[ip] <= RATE_LIMIT_DURATION(h)

\* isRateLimited: TRUE when the request is rejected (the map is then left alone).
isRateLimited(h, times, ip, t) == t - times[ip] < RATE_LIMIT_DURATION(h)

\* A counter whose window already ends when exactly MONITOR_PERIOD has passed.
requestCountData_resetAtPeriod(counts, ip, t) ==
    LET data == IF counts[ip].count > 0 THEN counts[ip]
                ELSE [count |-> 0, firstRequestTime |-> t]
        bumped == [data EXCEPT !.count = @ + 1]
    IN  IF t - bumped.firstRequestTime >= MONITOR_PERIOD
        THEN [count |-> 1, firstRequestTime |-> t]
        ELSE bumped

\* "Track request count": the entry stored for ip after a request at time t.
requestCountData(counts, ip, t) ==
    LET data == IF counts[ip].count > 0 THEN counts[ip]
                ELSE [count |-> 0, firstRequestTime |-> t]
        bumped == [data EXCEPT !.count = @ + 1]
    IN  IF t - bumped.firstRequestTime > MONITOR_PERIOD
        THEN [count |-> 1, firstRequestTime |-> t]
        ELSE bumped

\* "Track request count" up to the test of the threshold.  An entry the map
\* already holds is the object the handler increments, so the map shows the
\* increment at once; a new object reaches the map with set().
observe(w, t) ==
    LET data == requestCountData(w.counts, w.rec.ip, t) IN
    [w EXCEPT !.counts[w.rec.ip] = IF @.count > 0 THEN data ELSE @,
              !.rec.currentTime = t,
              !.rec.seen = w.counts[w.rec.ip], !.rec.stored = data,
              !.rec.notes = IF data.count > NOTIFY_THRESHOLD THEN @ + 1 ELSE @]

\* A set() that writes back the entry as the request computed it.
storeCount_copy(counts, rec) == [counts EXCEPT ![rec.ip] = rec.stored]

\* ipRequestCountMap.set(clientIP, requestCountData): the map is given the
\* object it already holds, or the new object of a key that had none.
storeCount(counts, rec) ==
    IF rec.seen.count > 0 THEN counts ELSE [counts EXCEPT ![rec.ip] = rec.stored]

-----------------------------------------------------------------------------
(* The pipeline *)

\* The call of fetch() at time t, and what may end the request before it.
Send(h, w, key, t) ==
    LET d == Dispatch(h, w.rec.q, key)
    IN  CASE d.kind = "throw" -> Fail(h, w, d.msg)
          [] d.kind = "respond" -> Deliver(w, d.resp)
          [] OTHER -> [w EXCEPT !.rec.pc = "fetching", !.rec.sent = Append(@, d.sent),
                                !.rec.dispatchedAt = t]

\* From ipRequestCountMap.set to the await of req.text() in the handlers
\* that read the request text (the path is tested before), to the await of
\* fetch() in the others.
AfterCount(h, w, key, t) ==
    LET w1 == IF h \in CountsRequests
              THEN [w EXCEPT !.counts = storeCount(w.counts, w.rec)] ELSE w
    IN  IF h \in ReadsRequestText /\ ~invalidPath(h, w.rec.q)
        THEN [w1 EXCEPT !.rec.pc = "text"]
        ELSE Send(h, w1, key, t)

\* From the gate to the await of fetch(), or to the await of notifyAdmin.
AfterGate(h, w, key, t) ==
    LET w1 == IF h \in CountsRequests THEN observe(w, t) ELSE w
    IN  IF h \in CountsRequests /\ w1.rec.stored.count > NOTIFY_THRESHOLD
        THEN [w1 EXCEPT !.rec.pc = "notifying"]
        ELSE AfterCount(h, w1, key, t)

\* The answer to a preflight request.
PreflightResponse(h, q) ==
    CASE h = "mistral_1" -> Response(204, getCorsHeaders(HGet(q.headers, "origin")), NoBody)
      [] h = "together_1" ->
            Response(204, HSet(corsHeaders(q), "x-proxy-diagnostic", S("diagnosticInfo")), NoBody)
      [] OTHER -> Response(204, EdithCors, NoBody)

\* A denial that comes after the limiter has taken note of the request.
Refuse_stamped(h, w, why) ==
    LET ws == [w EXCEPT !.last[w.rec.ip] = w.rec.startTime,
                        !.times[w.rec.ip] = w.rec.startTime]
        q == w.rec.q
        banText == TextBody("Your IP is banned from accessing this service.")
    IN  CASE h = "together_1" -> Deliver(ws, Response(403, corsHeaders(q), banText))
          [] h = "part_002" ->
                LET body == IF why = "origin" THEN TextBody("Stop Abusing the Api") ELSE banText
                    error == IF why = "origin" THEN "Unauthorized origin" ELSE "Banned IP"
                IN  LogAwait(ws, "caught", AuditRecord(403, body, error),
                             Response(403, HMerge(StarCors, TextType), body))
          [] OTHER ->
                Deny(h, ws, 403,
                    IF why = "origin" THEN "Unauthorized Origin"
                    ELSE "Your IP is banned from accessing this service")

\* The denial of a request by the origin check ("origin") or the ban list ("banned").
Refuse(h, w, why) ==
    LET q == w.rec.q
        banText == TextBody("Your IP is banned from accessing this service.")
    IN  CASE h = "together_1" -> Deliver(w, Response(403, corsHeaders(q), banText))
          [] h = "part_002" ->
                LET body == IF why = "origin" THEN TextBody("Stop Abusing the Api") ELSE banText
                    error == IF why = "origin" THEN "Unauthorized origin" ELSE "Banned IP"
                IN  LogAwait(w, "caught", AuditRecord(403, body, error),
                             Response(403, HMerge(StarCors, TextType), body))
          [] OTHER ->
                Deny(h, w, 403,
                    IF why = "origin" THEN "Unauthorized Origin"
                    ELSE "Your IP is banned from accessing this service")

\* ipLastRequestMap.set(ip, Date.now()), the last statement of
\* waitForCooldown: the handler, which awaits the call, goes on in a later
\* microtask.
Stamp(w, t) ==
    [w EXCEPT !.last[w.rec.ip] = t, !.rec.stamped = t, !.rec.pc = "gated"]

\* handler(req) from its entry to its first await.
Enter(h, w0, key, t) ==
    LET q == w0.rec.q
        ip == clientIP(h, q)
        w == [w0 EXCEPT !.rec.ip = ip, !.rec.pc = "entered", !.rec.startTime = t]
        wr == [w EXCEPT !.rec.lastRequestTime = w.times[ip]]
        wc == [w EXCEPT !.rec.lastRequestTime = w.last[ip]]
    IN  IF h \in HandlesOptions /\ q.method = "OPTIONS"
        THEN Deliver(w, PreflightResponse(h, q))
        ELSE IF originDenied(h, q) THEN Refuse(h, w, "origin")
        ELSE IF isBannedIP(h, ip) THEN Refuse(h, w, "banned")
        ELSE IF h \in UsesRateLimit
        THEN IF isRateLimited(h, w.times, ip, t)
             THEN Deny(h, wr, 429, "Too Many Requests")
             ELSE AfterGate(h, [wr EXCEPT !.times[ip] = t, !.rec.stamped = t], key, t)
        ELSE IF h \in UsesCooldown
        THEN IF waitTime(h, w.last, ip, t) > 0
             THEN [wc EXCEPT !.rec.pc = "cooldown",
                             !.rec.wakeAt = t + waitTime(h, w.last, ip, t)]
             ELSE Stamp(wc, t)
        ELSE AfterGate(h, w, key, t)

\* The third cerebras module after its audit insert: response.body has been
\* read by response.text() and is handed on a second time.
AfterAudit(h, w) ==
    LET o == w.rec.up IN
    IF isStreaming(o)
    THEN Fail(h, w, IF o.hasBody THEN "TypeError" ELSE "No response body")
    ELSE IF o.hasBody THEN Fail(h, w, "TypeError")
    ELSE Deliver(w, Response(o.status, responseHeaders(h, w.rec.q, o), NoBody))

\* From the test of the Content-Type (in the handlers that read the text of
\* a buffered reply: from the text read) to the return, or to the next await.
Relay(h, w) ==
    LET q == w.rec.q
        o == w.rec.up
        hdrs == responseHeaders(h, q, o)
        live == Response(o.status, hdrs, IF o.hasBody THEN StreamBody ELSE NoBody)
        text == BytesBody(Utf8RoundTrip(o.chunks))
        marker == AuditRecord(o.status, TextBody("[Streaming Response]"), "")
    IN  IF ~o.ok THEN Fail(h, w, "fetch failed")
        ELSE IF h = "cerebras_3"
        THEN LogAwait(w, "try", AuditRecord(o.status, text, ""), NoResponse)
        ELSE IF h \in {"together_1", "part_000"} THEN Deliver(w, live)
        ELSE IF isStreaming(o)
        THEN IF ~o.hasBody THEN Fail(h, w, "No response body")
             ELSE CASE h = "part_002" -> LogAwait(w, "caught", marker, live)
                    [] h \in FireAndForgetLog -> LogForget(w, marker, live)
                    [] h = "cerebras_1" ->
                          LogAwait(w, "caught", AuditRecord(o.status, TextBody(""), ""), live)
                    [] OTHER -> Deliver(w, live)
        ELSE CASE h = "part_002" \/ h = "cerebras_1" ->
                    LogAwait(w, "caught", AuditRecord(o.status, text, ""),
                             Response(o.status, hdrs, text))
               [] h \in FireAndForgetLog ->
                    LogForget(w, AuditRecord(o.status, text, ""), Response(o.status, hdrs, text))
               [] OTHER -> Deliver(w, live)

\* await response.text(): before the Content-Type is looked at in the third
\* cerebras module, on the buffered path in the others that read the text.
readsText(h, o) ==
    \/ h = "cerebras_3"
    \/ h \in ReadsResponseText /\ ~isStreaming(o)

\* The handler goes on with the upstream's reply, or awaits the whole body first.
Forward(h, w) ==
    IF readsText(h, w.rec.up) THEN [w EXCEPT !.rec.pc = "reading"] ELSE Relay(h, w)

\* notifyAdmin(...) "for every request", called and not awaited once fetch()
\* has answered, before the Content-Type is looked at.
Notify(h, w) == Forward(h, [w EXCEPT !.rec.notes = @ + 1])

\* fetch() has settled: a rejection is caught; a reply is relayed, after the
\* await of countryPromise and the notification where the handler has them.
Settle(h, w) ==
    IF ~w.rec.up.ok THEN Relay(h, w)
    ELSE CASE h = "part_001" -> AwaitCountry(w, 0, "")
           [] h = "cerebras_2" -> Notify(h, w)
           [] OTHER -> Forward(h, w)

\* countryPromise has resolved.
AfterCountry(h, w) ==
    IF w.rec.caught.status # 0
    THEN handleError(w, w.rec.caught.status, w.rec.caught.message)
    ELSE Notify(h, w)

-----------------------------------------------------------------------------
(* Actions *)

Commit(r, w) ==
    \E v \in {w} :
        /\ req' = [req EXCEPT ![r] = v.rec]
        /\ ipLastRequestMap' = v.last
        /\ requestTimes' = v.times
        /\ ipRequestCountMap' = v.counts
        /\ UNCHANGED <<handler, API_KEY, now>>

\* The platform invokes handler(req) with request q.
Arrive(r, q) ==
    /\ req[r].pc \in {"idle", "done"}
    /\ Commit(r, Enter(handler, World([IdleReq EXCEPT !.q = q]), API_KEY, now))

\* A gate that looks at the map again when its timer fires and waits once
\* more if another request of the key has been stamped meanwhile.
CooldownWake_recheck(r) ==
    /\ req[r].pc = "cooldown"
    /\ now >= req[r].wakeAt - TimerSlack
    /\ LET w == World(req[r])
           again == waitTime(handler, ipLastRequestMap, req[r].ip, now)
       IN  IF again > TimerSlack
           THEN Commit(r, [w EXCEPT !.rec.wakeAt = now + again])
           ELSE Commit(r, Stamp(w, now))

\* The cooldown timer runs its callback: waitForCooldown stamps the key with
\* the Date.now() of that moment, which it does not compare with anything.
CooldownWake(r) ==
    /\ req[r].pc = "cooldown"
    /\ now >= req[r].wakeAt - TimerSlack
    /\ Commit(r, Stamp(World(req[r]), now))

\* await waitForCooldown(clientIP) returns: the handler goes on behind the gate.
GateReturn(r) ==
    /\ req[r].pc = "gated"
    /\ Commit(r, AfterGate(handler, World(req[r]), API_KEY, now))

\* await notifyAdmin(clientIP) returns.
NotifyDone(r) ==
    /\ req[r].pc = "notifying"
    /\ Commit(r, AfterCount(handler, World(req[r]), API_KEY, now))

\* req.text() resolves: the client has sent the whole body.
RequestRead(r) ==
    /\ req[r].pc = "text"
    /\ Commit(r, Send(handler, World(req[r]), API_KEY, now))

\* The IP2Location lookup answers (getCountryFromIP never rejects).
CountryResolved(r) ==
    /\ req[r].pc = "locating"
    /\ Commit(r, AfterCountry(handler, World(req[r])))

\* fetch() settles with outcome o.
UpstreamRespond(r, o) ==
    /\ req[r].pc = "fetching"
    /\ Commit(r, Settle(handler, World([req[r] EXCEPT !.up = o])))

\* The upstream sends the next chunk of its response body: to response.text(),
\* or to the relayed stream, which holds one chunk until the client reads it.
UpstreamSend(r) ==
    /\ \/ req[r].pc = "reading"
       \/ req[r].pc = "streaming" /\ req[r].arrived = Len(req[r].delivered)
    /\ req[r].arrived < Len(req[r].up.chunks)
    /\ req' = [req EXCEPT ![r].arrived = @ + 1]
    /\ UNCHANGED <<handler, API_KEY, now, ipLastRequestMap, requestTimes, ipRequestCountMap>>

\* response.text() resolves: the upstream has sent the whole body.
BodyRead(r) ==
    /\ req[r].pc = "reading"
    /\ req[r].arrived = Len(req[r].up.chunks)
    /\ Commit(r, Relay(handler, World(req[r])))

\* The handler after its awaited audit insert has settled with result.
AfterSink(h, w, result) ==
    CASE w.rec.sinkMode = "try" ->
           IF result = "throw" THEN Fail(h, w, "insert failed")
           ELSE AfterAudit(h, w)
      [] w.rec.sinkMode = "bare" /\ result = "throw" ->
           [w EXCEPT !.rec.pc = "done", !.rec.thrown = TRUE]
      [] OTHER -> Deliver(w, w.rec.pending)

\* The awaited audit insert settles: it resolved, resolved with an error, or threw.
SinkComplete(r, result) ==
    /\ req[r].pc = "logging"
    /\ Commit(r, AfterSink(handler, World(req[r]), result))

\* The client reads the next chunk of a streamed body.
RelayChunk(r) ==
    /\ req[r].pc = "streaming"
    /\ Len(req[r].delivered) < req[r].arrived
    /\ req' = [req EXCEPT ![r].delivered =
                 Append(@, transform(req[r].up.chunks[Len(req[r].delivered) + 1]))]
    /\ UNCHANGED <<handler, API_KEY, now, ipLastRequestMap, requestTimes, ipRequestCountMap>>

\* The upstream body ends and the relayed stream is closed.
StreamClose(r) ==
    /\ req[r].pc = "streaming"
    /\ Len(req[r].delivered) = Len(req[r].up.chunks)
    /\ req' = [req EXCEPT ![r].closed = TRUE, ![r].pc = "done"]
    /\ UNCHANGED <<handler, API_KEY, now, ipLastRequestMap, requestTimes, ipRequestCountMap>>

\* The next moment at which the clock is observed.
NextBeat(h, t) == StartTime + ((t - StartTime) \div TickMs(h) + 1) * TickMs(h)

\* The moments that matter to the pending timers: the time each is set for
\* and the moment TimerSlack before it.
TimerMoments ==
    UNION { { req[r].wakeAt - TimerSlack, req[r].wakeAt } :
              r \in { x \in DOMAIN req : req[x].pc = "cooldown" } }

\* The moments the clock may be read at next: the next beat and every moment
\* of a pending timer up to it.  (The clock may pass a timer's time without
\* the callback having run: the event loop runs a due callback when it gets
\* to it.)
Instants(h, t) ==
    { u \in { NextBeat(h, t) } \cup TimerMoments : u > t /\ u <= NextBeat(h, t) }

\* Time passes.
Tick ==
    /\ now < StartTime + MaxTicks * TickMs(handler)
    /\ \E u \in Instants(handler, now) : now' = u
    /\ UNCHANGED <<handler, API_KEY, ipLastRequestMap, requestTimes, ipRequestCountMap, req>>

SinkResults == { "ok", "error", "throw" }

DefaultKey == S("sk-default")

\* What earlier requests of the key 'unknown-ip' left in the maps: nothing;
\* NOTIFY_THRESHOLD requests in the last seconds; two requests one
\* monitoring period ago.
Pasts(h) ==
    { [last |-> 0, data |-> NoCount] }
    \cup IF h \in CountsRequests
         THEN { [last |-> StartTime - 2 * RATE_LIMIT_DURATION(h),
                 data |-> [count |-> NOTIFY_THRESHOLD,
                           firstRequestTime |-> StartTime - 2 * NOTIFY_THRESHOLD * RATE_LIMIT_DURATION(h)]],
                [last |-> StartTime - MONITOR_PERIOD + RATE_LIMIT_DURATION(h),
                 data |-> [count |-> 2, firstRequestTime |-> StartTime - MONITOR_PERIOD]] }
         ELSE {}

Init ==
    /\ handler \in Handlers
    /\ API_KEY \in { Null, DefaultKey }
    /\ handler \in RequiresApiKey => API_KEY # Null
    /\ now = StartTime
    /\ requestTimes = [k \in Keys |-> 0]
    /\ \E past \in Pasts(handler) :
          /\ ipLastRequestMap = [k \in Keys |-> IF k = UnknownIP THEN past.last ELSE 0]
          /\ ipRequestCountMap = [k \in Keys |-> IF k = UnknownIP THEN past.data ELSE NoCount]
    /\ req = [r \in Slots |-> IdleReq]

\* The requests that make up the history: one shape, one client key.
HistoryRequests(h) == { q \in PlainRequests(h) : "x-forwarded-for" \notin DOMAIN q.headers }

\* The client of slot r waits for nothing: it has sent no request, or it has
\* read the reply to its request to the end (or seen the handler throw).  A
\* handler that has returned a Response whose body is still streamed is not
\* settled in this sense.
Settled(r) == req[r].pc \in {"idle", "done"}

\* A history is one more way in which a run differs from the plain one.
HistoryDeviations == IF req[2].pc = "idle" THEN 0 ELSE 1

\* Any request and any upstream outcome in slot 1, after a history of plain
\* requests in slot 2, each made by a client that has read the reply to the
\* one before to the end.  The clock matters to a request
\* up to its call of fetch(), so it is advanced only until then.
Next ==
    \/ req[1].pc = "idle" /\ \E q \in HistoryRequests(handler) : Arrive(2, q)
    \/ req[1].pc = "idle" /\ Settled(2)
          /\ \E q \in Requests(handler) :
                Deviations(handler, q) + HistoryDeviations <= MaxDeviations /\ Arrive(1, q)
    \/ \E r \in 1..2 : CooldownWake(r)
    \/ \E r \in 1..2 : GateReturn(r)
    \/ \E r \in 1..2 : NotifyDone(r)
    \/ \E r \in 1..2 : RequestRead(r)
    \/ \E r \in 1..2 : CountryResolved(r)
    \/ \E o \in UpstreamOutcomes :
          /\ req[1].pc = "fetching"
          /\ Deviations(handler, req[1].q) + HistoryDeviations
                + (IF o \in PlainOutcomes THEN 0 ELSE 1) <= MaxDeviations
          /\ UpstreamRespond(1, o)
    \/ \E o \in PlainOutcomes : UpstreamRespond(2, o)
    \/ \E r \in 1..2 : UpstreamSend(r)
    \/ \E r \in 1..2 : BodyRead(r)
    \/ \E r \in 1..2 : \E res \in SinkResults : SinkComplete(r, res)
    \/ \E r \in 1..2 : RelayChunk(r)
    \/ \E r \in 1..2 : StreamClose(r)
    \/ req[1].pc \in {"idle", "cooldown", "gated", "text"} /\ Tick

Spec == Init /\ [][Next]_vars

\* Concurrent invocations of one request shape.
NextConc ==
    \/ \E r \in Slots : \E q \in PlainRequests(handler) : Arrive(r, q)
    \/ \E r \in Slots : CooldownWake(r)
    \/ \E r \in Slots : GateReturn(r)
    \/ \E r \in Slots : NotifyDone(r)
    \/ \E r \in Slots : RequestRead(r)
    \/ \E r \in Slots : CountryResolved(r)
    \/ \E r \in Slots : \E o \in PlainOutcomes : UpstreamRespond(r, o)
    \/ \E r \in Slots : UpstreamSend(r)
    \/ \E r \in Slots : BodyRead(r)
    \/ \E r \in Slots : \E res \in SinkResults : SinkComplete(r, res)
    \/ \E r \in Slots : RelayChunk(r)
    \/ \E r \in Slots : StreamClose(r)
    \/ Tick

SpecConc == Init /\ [][NextConc]_vars

InitLimiter == Init /\ handler \in UsesRateLimit

\* Concurrent invocations of the handlers that reject with isRateLimited.
\* They set no timer, await neither a notification nor an audit insert, and
\* answer the JSON reply of the upstream with the text they have read.
NextLimiter ==
    \/ \E r \in Slots : \E q \in PlainRequests(handler) : Arrive(r, q)
    \/ \E r \in Slots : RequestRead(r)
    \/ \E r \in Slots : CountryResolved(r)
    \/ \E r \in Slots : \E o \in PlainOutcomes : UpstreamRespond(r, o)
    \/ \E r \in Slots : UpstreamSend(r)
    \/ \E r \in Slots : BodyRead(r)
    \/ Tick

SpecLimiter == InitLimiter /\ [][NextLimiter]_vars

\* The last moment at which a request arrives in the runs with timers.
LastArrival == StartTime + MaxTicks * TickMs(handler)

\* Time passes, as long as a request may arrive or a timer is running.
TickLive ==
    /\ \/ now < LastArrival
       \/ \E r \in Slots : req[r].pc = "cooldown" /\ now < req[r].wakeAt
    /\ \E u \in Instants(handler, now) : now' = u
    /\ UNCHANGED <<handler, API_KEY, ipLastRequestMap, requestTimes, ipRequestCountMap, req>>

\* The two handlers whose waitForCooldown is studied, deployed with their
\* key; the handler that counts requests starts with a key at the threshold.
InitLive ==
    /\ Init
    /\ handler \in {"mistral_1", "part_002"}
    /\ API_KEY = DefaultKey
    /\ handler \in CountsRequests => ipRequestCountMap[UnknownIP].count = NOTIFY_THRESHOLD
    /\ handler \notin CountsRequests => ipRequestCountMap[UnknownIP] = NoCount

\* Concurrent requests of one client to the handlers that wait in
\* waitForCooldown.
NextLive ==
    \/ now <= LastArrival /\ \E r \in Slots : \E q \in HistoryRequests(handler) : Arrive(r, q)
    \/ \E r \in Slots : CooldownWake(r)
    \/ \E r \in Slots : GateReturn(r)
    \/ \E r \in Slots : NotifyDone(r)
    \/ \E r \in Slots : RequestRead(r)
    \/ \E r \in Slots : \E o \in PlainOutcomes : UpstreamRespond(r, o)
    \/ \E r \in Slots : UpstreamSend(r)
    \/ \E r \in Slots : BodyRead(r)
    \/ \E r \in Slots : \E res \in SinkResults : SinkComplete(r, res)
    \/ \E r \in Slots : RelayChunk(r)
    \/ \E r \in Slots : StreamClose(r)
    \/ TickLive

\* The clock advances and a timer whose time has come calls back: the event
\* loop runs the setTimeout callback of waitForCooldown once it is due.
SpecLive ==
    /\ InitLive /\ [][NextLive]_vars
    /\ WF_vars(TickLive)
    /\ \A r \in Slots : WF_vars(CooldownWake(r))

-----------------------------------------------------------------------------
(* Properties *)

Started(r) == req[r].pc # "idle"

Done(r) == req[r].pc = "done"

Origin(r) == HGet(req[r].q.headers, "origin")

Referer(r) == HGet(req[r].q.headers, "referer")

Banned(r) == req[r].ip \in BANNED_IPS(handler)

\* What the client holds of the response body.
ClientBody(r) ==
    IF req[r].resp.body.kind = "stream" THEN req[r].delivered ELSE req[r].resp.body.bytes

CorsNames ==
    { "access-control-allow-origin", "access-control-allow-methods",
      "access-control-allow-headers", "access-control-allow-credentials" }

CorsOf(hs) == [n \in DOMAIN hs \cap CorsNames |-> hs[n]]

\* C1: two requests of one key that the cooldown gate has admitted carry
\* admission timestamps at least RATE_LIMIT_DURATION apart.
C1_CooldownInvariant ==
    \A r1, r2 \in Slots :
        ( /\ r1 # r2
          /\ handler \in UsesCooldown
          /\ req[r1].stamped > 0 /\ req[r2].stamped > 0
          /\ req[r1].ip = req[r2].ip )
        => \/ req[r1].stamped - req[r2].stamped >= RATE_LIMIT_DURATION(handler)
           \/ req[r2].stamped - req[r1].stamped >= RATE_LIMIT_DURATION(handler)

\* C2, as claimed: a request whose client key is banned is never forwarded
\* and is answered 403, whatever its method, headers or body.
C2_BannedAlways403 ==
    \A r \in Slots :
        (Started(r) /\ Banned(r))
        => /\ req[r].sent = << >>
           /\ Done(r) => req[r].resp.status = 403

\* C2, amended: a request whose client key is banned is never forwarded and
\* is answered 403, whatever its headers or body, unless it is an OPTIONS
\* request to a handler that answers preflight before the ban check.
C2_BannedNonPreflight403 ==
    \A r \in Slots :
        ( /\ Started(r) /\ Banned(r)
          /\ ~(handler \in HandlesOptions /\ req[r].q.method = "OPTIONS") )
        => /\ req[r].sent = << >>
           /\ ~req[r].thrown
           /\ Done(r) => req[r].resp.status = 403

\* A banned key with an allow-listed origin has been refused by the ban check.
C2_Witness ==
    \E r \in Slots :
        /\ Done(r) /\ Banned(r)
        /\ req[r].q.method = "POST"
        /\ Origin(r) = GoodOrigin
        /\ HGet(req[r].q.headers, "authorization") # Null
        /\ req[r].resp.status = 403

\* Neither Origin nor Referer holds an allow-listed substring.
NoneAllowListed(r) ==
    \A a \in AllowedOrigins(handler) : ~Includes(Origin(r), a) /\ ~Includes(Referer(r), a)

OriginDenialBodies ==
    { ErrorJson("Unauthorized Origin"), TextBody("Stop Abusing the Api") }

\* C3: with a non-empty allow-list a non-preflight request whose Origin and
\* Referer hold none of its entries is never dispatched and is answered 403;
\* with an empty allow-list no request is refused for its origin.
C3_OriginAllowList ==
    \A r \in Slots :
        /\ ( /\ Started(r)
             /\ AllowedOrigins(handler) # {}
             /\ req[r].q.method # "OPTIONS"
             /\ NoneAllowListed(r) )
           => /\ req[r].sent = << >>
              /\ Done(r) => req[r].resp.status = 403
        /\ (Started(r) /\ AllowedOrigins(handler) = {})
           => /\ req[r].resp.body \notin OriginDenialBodies
              /\ req[r].pending.body \notin OriginDenialBodies
              /\ (Done(r) /\ req[r].resp.status = 403) => Banned(r)

\* A request from a foreign origin has been refused.
C3_Witness ==
    \E r \in Slots :
        /\ Done(r)
        /\ handler \in ChecksOrigin
        /\ req[r].q.method = "POST"
        /\ Origin(r) = EvilOrigin
        /\ ~Banned(r)
        /\ req[r].resp.status = 403
        /\ req[r].sent = << >>

\* C4: in the handlers of mistral/[...path].ts, together/[...path].ts and
\* part_002 an OPTIONS request is answered 204 with CORS headers only and no
\* body, without any check, dispatch, audit row or change to the limiter.
C4_PreflightShortCircuits ==
    \A r \in Slots :
        ( /\ Started(r) /\ req[r].q.method = "OPTIONS"
          /\ handler \in {"mistral_1", "together_1", "part_002"} )
        => /\ Done(r)
           /\ req[r].resp.status = 204
           /\ req[r].resp.body = NoBody
           /\ DOMAIN req[r].resp.headers \subseteq CorsNames \cup {"access-control-max-age"}
           /\ req[r].sent = << >>
           /\ req[r].logs = << >>
           /\ req[r].stamped = 0
           /\ req[r].notes = 0

\* C5: in a handler that answers preflight, the answer to an OPTIONS request
\* that carries Origin o is 204, empty, with Access-Control-Allow-Origin
\* equal to o.
C5_PreflightReflectsOrigin ==
    \A r \in Slots :
        ( /\ Done(r) /\ handler \in HandlesOptions
          /\ req[r].q.method = "OPTIONS" /\ Origin(r) # Null )
        => /\ req[r].resp.status = 204
           /\ req[r].resp.body = NoBody
           /\ HGet(req[r].resp.headers, "access-control-allow-origin") = Origin(r)

\* C6: in the handlers of mistral/[...path].ts, together/[...path].ts and
\* part_000 a non-OPTIONS request without a bearer token, with no default
\* secret configured, is never dispatched and is answered 401 "API key is
\* required".
C6_MissingSecret401 ==
    \A r \in Slots :
        ( /\ Started(r)
          /\ handler \in {"mistral_1", "together_1", "part_000"}
          /\ req[r].q.method # "OPTIONS"
          /\ API_KEY = Null
          /\ SplitSecond(HGet(req[r].q.headers, "authorization"), "Bearer ") = Null )
        => /\ req[r].sent = << >>
           /\ Done(r) => /\ req[r].resp.status = 401
                         /\ req[r].resp.body = ErrorJson("API key is required")

\* C7: when the dispatch fails with a transport error the client receives
\* 500 with the body {"error":"Internal Server Error"} and nothing more, and
\* no exception leaves the handler.
C7_Failure500 ==
    \A r \in Slots :
        /\ ~req[r].thrown
        /\ (Done(r) /\ req[r].up = TransportError)
           => /\ req[r].resp.status = 500
              /\ req[r].resp.body = ErrorJson("Internal Server Error")

\* C8: in part_002 and the second cerebras module a 401, 403, 429 or 500 of
\* the gateway carries the CORS headers, with the values, that a forwarded
\* response of the same handler to the same request carries.
C8_ErrorCorsAsSuccess ==
    \A r \in Slots :
        ( /\ Done(r) /\ ~req[r].thrown
          /\ handler \in {"part_002", "cerebras_2"}
          /\ req[r].resp.status \in {401, 403, 429, 500} )
        => CorsOf(req[r].resp.headers) = CorsOf(SuccessCors(handler, req[r].q))

\* C9: a streamed upstream body reaches the client chunk for chunk, in
\* order, and the stream is then closed.
C9_StreamDelivered ==
    \A r \in Slots :
        (Done(r) /\ req[r].up.ok /\ req[r].up.hasBody /\ isStreaming(req[r].up))
        => /\ req[r].resp.body.kind = "stream"
           /\ req[r].delivered = req[r].up.chunks
           /\ req[r].closed

\* C10: in part_002, the third cerebras module and mistral/[...path].ts the
\* body the client receives on the buffered path is the body the upstream
\* returned.
C10_BufferedIdentical ==
    \A r \in Slots :
        ( /\ Done(r) /\ req[r].up.ok /\ req[r].up.hasBody /\ ~isStreaming(req[r].up)
          /\ handler \in {"part_002", "cerebras_3", "mistral_1"} )
        => /\ req[r].resp.status = req[r].up.status
           /\ ClientBody(r) = req[r].up.chunks

\* C11: in mistral/[...path].ts and part_002 an upstream answer with a
\* non-2xx status reaches the client with that status and that body, after
\* exactly one dispatch.
C11_NonSuccessRelayed ==
    \A r \in Slots :
        ( /\ Done(r) /\ req[r].up.ok
          /\ req[r].up.status \notin 200..299
          /\ handler \in {"mistral_1", "part_002"} )
        => /\ req[r].resp.status = req[r].up.status
           /\ ClientBody(r) = req[r].up.chunks
           /\ Len(req[r].sent) = 1

\* The time between the stamp the gate read and the arrival of the request.
Elapsed(r) == req[r].startTime - req[r].lastRequestTime

\* C12: a request that arrives elapsed < D after the stamp its gate read for
\* its key is not dispatched before D - elapsed has passed since its arrival.
C12_DelayedDispatch ==
    \A r \in Slots :
        ( /\ handler \in UsesCooldown \cup UsesRateLimit
          /\ req[r].sent # << >>
          /\ Elapsed(r) < RATE_LIMIT_DURATION(handler) )
        => req[r].dispatchedAt - req[r].startTime
              >= RATE_LIMIT_DURATION(handler) - Elapsed(r)

\* C13: no request is answered with a denial because of its rate: a request
\* inside the window of its predecessor is never answered 429.
C13_SoftLimiter ==
    \A r \in Slots :
        (Started(r) /\ Elapsed(r) < RATE_LIMIT_DURATION(handler))
        => /\ req[r].resp.status # 429
           /\ req[r].resp.body # ErrorJson("Too Many Requests")

\* C14: in part_002 and together/[...path].ts every request other than a
\* preflight has handed an audit record to the sink by the time it is
\* answered, whatever the outcome.
C14_AlwaysAudited ==
    \A r \in Slots :
        ( /\ Done(r) /\ req[r].q.method # "OPTIONS"
          /\ handler \in {"part_002", "together_1"} )
        => req[r].logs # << >>

\* C15: when an awaited audit insert settles, the response, the response
\* being prepared and the handler's completion are what they are when the
\* insert succeeds, whether it succeeded, returned an error or threw.
C15_SinkFailureHarmless ==
    [][ \A r \in Slots :
          (req[r].pc = "logging" /\ req'[r] # req[r])
          => LET ok == AfterSink(handler, World(req[r]), "ok").rec IN
             /\ req'[r].resp = ok.resp
             /\ req'[r].pending = ok.pending
             /\ req'[r].pc = ok.pc
             /\ req'[r].thrown = ok.thrown ]_vars

\* C16: in part_001 and part_002 the handler of a forwarded request whose
\* upstream response has a body never awaits the audit sink while its
\* response is still to be returned.
C16_SinkNeverGates ==
    \A r \in Slots :
        (handler \in {"part_001", "part_002"} /\ req[r].up.ok /\ req[r].up.hasBody)
        => ~(req[r].pc = "logging" /\ req[r].resp = NoResponse)

\* C18: in the third cerebras module, part_002 and mistral/[...path].ts a
\* request that has passed the gate with a usable path and key, and whose
\* handler has gone past the awaits before its call of fetch(), has been
\* dispatched once, with a body equal to the inbound body.
C18_BodyForwardedUntouched ==
    \A r \in Slots :
        ( /\ handler \in {"cerebras_3", "part_002", "mistral_1"}
          /\ req[r].stamped > 0
          /\ req[r].pc \notin {"gated", "notifying", "text"}
          /\ ~invalidPath(handler, req[r].q)
          /\ req[r].resp.status # 401 /\ req[r].pending.status # 401 )
        => /\ Len(req[r].sent) = 1
           /\ req[r].sent[1].body = req[r].q.body

UpstreamBase(h) == IF h \in {"mistral_1", "mistral_2"} THEN MISTRAL_BASE_URL ELSE TARGET_BASE_URL

\* The base, the path after the route prefix, and the query string.
ExpectedTarget(h, q) == <<UpstreamBase(h), "/">> \o Tail(q.url.pathname) \o q.url.search

\* C19: in mistral/[...path].ts, together/[...path].ts and the first cerebras
\* module the URL of every dispatched request is the upstream base followed
\* by the path after the route prefix and by the query string.
C19_TargetUrl ==
    \A r \in Slots :
        (handler \in {"mistral_1", "together_1", "cerebras_1"} /\ req[r].sent # << >>)
        => req[r].sent[1].url = ExpectedTarget(handler, req[r].q)

\* C20: in part_001 and part_002, two completed requests that are the same
\* request from the same client, and whose dispatches (if both were
\* dispatched) met the same upstream outcome, received the same response
\* status and the same body.
C20_ReplayIdempotent ==
    \A r1, r2 \in Slots :
        (/\ handler \in {"part_001", "part_002"}
         /\ Done(r1) /\ Done(r2)
         /\ req[r1].q = req[r2].q
         /\ req[r1].ip = req[r2].ip
         /\ (req[r1].sent = << >> \/ req[r2].sent = << >> \/ req[r1].up = req[r2].up))
        => /\ req[r1].resp.status = req[r2].resp.status
           /\ ClientBody(r1) = ClientBody(r2)

BanDenialBodies ==
    { TextBody("Your IP is banned from accessing this service."),
      ErrorJson("Your IP is banned from accessing this service") }

\* C21: in part_001, part_002 and the second cerebras module a completed
\* non-preflight request from a banned client key whose Origin and Referer
\* are not allow-listed is answered with the banned-IP denial.
C21_BanBeforeOrigin ==
    \A r \in Slots :
        ( /\ handler \in {"part_001", "part_002", "cerebras_2"}
          /\ Done(r) /\ Banned(r) /\ NoneAllowListed(r)
          /\ req[r].q.method # "OPTIONS" )
        => req[r].resp.body \in BanDenialBodies

\* C22: in mistral/[...path].ts, the first together module and part_002 the
\* headers of every dispatched request hold neither Connection nor
\* Transfer-Encoding.
C22_NoHopByHopUpstream ==
    \A r \in Slots :
        (handler \in {"mistral_1", "together_1", "part_002"})
        => \A i \in 1..Len(req[r].sent) :
              /\ "connection" \notin DOMAIN req[r].sent[i].headers
              /\ "transfer-encoding" \notin DOMAIN req[r].sent[i].headers

\* C23: in part_002, the first together module and part_001 a request calls
\* notifyAdmin only when the count of its key exceeds the threshold, and at
\* most one request of a key calls it within a monitoring period (every run
\* of the model is shorter than one monitoring period).
C23_NotifyDebounced ==
    \A r1, r2 \in Slots :
        (handler \in {"part_002", "together_1", "part_001"})
        => /\ req[r1].notes > 0 => req[r1].stored.count > NOTIFY_THRESHOLD
           /\ (r1 # r2 /\ req[r1].ip = req[r2].ip)
                => req[r1].notes + req[r2].notes <= 1

\* C24: in part_002 and the first together module, a request observed at
\* time t stores for its key: count 1 and window start t when the key had
\* no entry or when t minus its window start exceeds MONITOR_PERIOD, and
\* otherwise the count it read plus one with the window start unchanged.
C24_CounterWindow ==
    \A r \in Slots :
        (handler \in CountsRequests /\ req[r].currentTime > 0)
        => LET t == req[r].currentTime
               old == req[r].seen
           IN  IF old.count = 0 \/ t - old.firstRequestTime > MONITOR_PERIOD
               THEN req[r].stored = [count |-> 1, firstRequestTime |-> t]
               ELSE req[r].stored = [count |-> old.count + 1,
                                     firstRequestTime |-> old.firstRequestTime]

\* One request counted exactly MONITOR_PERIOD after the window start, the
\* next one later than that.
C24_Witness ==
    \E r1, r2 \in Slots :
        /\ handler \in CountsRequests
        /\ req[r1].currentTime > 0 /\ req[r2].currentTime > 0
        /\ req[r2].seen.count > 0
        /\ req[r2].currentTime - req[r2].seen.firstRequestTime = MONITOR_PERIOD
        /\ req[r2].stored.count = req[r2].seen.count + 1
        /\ req[r1].seen = req[r2].stored
        /\ req[r1].currentTime - req[r1].seen.firstRequestTime > MONITOR_PERIOD
        /\ req[r1].stored = [count |-> 1, firstRequestTime |-> req[r1].currentTime]

\* C25: in part_002 and the third cerebras module an upstream response that
\* has a body of at least one byte reaches the client as a live stream when
\* its Content-Type contains 'stream', and as a finite body with the
\* upstream's status when it does not or when there is no Content-Type.
C25_RelayPathByContentType ==
    \A r \in Slots :
        ( /\ handler \in {"part_002", "cerebras_3"}
          /\ Done(r) /\ req[r].up.ok /\ req[r].up.hasBody /\ req[r].up.chunks # << >> )
        => IF isStreaming(req[r].up)
           THEN req[r].resp.body.kind = "stream"
           ELSE req[r].resp.body.kind = "bytes" /\ req[r].resp.status = req[r].up.status

\* C26: in the third cerebras module, part_002 and mistral/[...path].ts no
\* handler whose upstream response has a streaming Content-Type, and a body
\* the upstream is still sending, awaits the whole of that body.
C26_StreamingNotBuffered ==
    \A r \in Slots :
        ( /\ handler \in {"cerebras_3", "part_002", "mistral_1"}
          /\ req[r].up.ok /\ isStreaming(req[r].up)
          /\ req[r].arrived < Len(req[r].up.chunks) )
        => req[r].pc # "reading"

StreamingMarker == TextBody("[Streaming Response]")

\* C27: in part_002 and the first and second cerebras modules the audit
\* record of a response returned as a live stream holds the marker
\* '[Streaming Response]' as its response body, and the audit record of a
\* response returned with a finite relayed body holds that body.
C27_StreamingMarkerLogged ==
    \A r \in Slots :
        ( /\ handler \in {"part_002", "cerebras_1", "cerebras_2"}
          /\ req[r].up.ok
          /\ req[r].resp.body.kind \in {"stream", "bytes"} )
        => /\ Len(req[r].logs) = 1
           /\ req[r].logs[1].response_body =
                 IF req[r].resp.body.kind = "stream" THEN StreamingMarker ELSE req[r].resp.body

\* The messages of the errors the handlers' try blocks throw.
Causes == { "fetch failed", "Invalid path", "No response body", "TypeError" }

\* C28: in part_002 and part_001 a request answered with the handler's own
\* 500 has an audit record whose error field is the message of the error
\* that was thrown.
C28_CauseRecorded ==
    \A r \in Slots :
        ( /\ handler \in {"part_002", "part_001"}
          /\ req[r].resp.status = 500
          /\ req[r].resp.body = ErrorJson("Internal Server Error") )
        => /\ req[r].logs # << >>
           /\ req[r].logs[Len(req[r].logs)].error \in Causes

\* C29: in mistral/[...path].ts, the first together module and part_002 no
\* response carries Access-Control-Allow-Origin '*' together with
\* Access-Control-Allow-Credentials 'true'.
C29_NoWildcardWithCredentials ==
    \A r \in Slots :
        (handler \in {"mistral_1", "together_1", "part_002"})
        => ~ ( /\ HGet(req[r].resp.headers, "access-control-allow-origin") = Star
               /\ HGet(req[r].resp.headers, "access-control-allow-credentials") = S("true") )

\* The bearer token of the inbound Authorization header, Null when none.
InboundToken(q) ==
    LET a == HGet(q.headers, "authorization")
    IN  IF a # Null /\ Head(a) = "Bearer " THEN Tail(a) ELSE Null

\* The inbound token where client-supplied keys are allowed and one is
\* present, the configured secret otherwise.
ResolvedSecret(h, q, key) ==
    IF h \in ClientSuppliedKey /\ InboundToken(q) # Null THEN InboundToken(q) ELSE key

UpstreamAuthorization(r) == HGet(req[r].sent[1].headers, "authorization")

\* C30: in mistral/[...path].ts, part_002 and the first together module the
\* Authorization header of every dispatched request is 'Bearer ' followed by
\* the resolved secret, which is not empty; where only the configured
\* secret is used, any two dispatched requests carry the same Authorization
\* header whatever their inbound Authorization headers.
C30_UpstreamAuthorization ==
    \A r1, r2 \in Slots :
        (handler \in {"mistral_1", "part_002", "together_1"} /\ req[r1].sent # << >>)
        => /\ ResolvedSecret(handler, req[r1].q, API_KEY) # Null
           /\ UpstreamAuthorization(r1)
                 = <<"Bearer ">> \o ResolvedSecret(handler, req[r1].q, API_KEY)
           /\ (handler \notin ClientSuppliedKey /\ req[r2].sent # << >>)
                 => UpstreamAuthorization(r1) = UpstreamAuthorization(r2)

\* The header value the origin evaluation is claimed to use.
ChosenOrigin(r) == IF Origin(r) # Null THEN Origin(r) ELSE Referer(r)

OriginDeniedResponse(r) ==
    /\ req[r].resp.status = 403
    /\ req[r].resp.body \in OriginDenialBodies
    /\ req[r].sent = << >>

\* C31: in part_002, part_001 and the second cerebras module a completed
\* non-preflight request received the origin denial exactly when the Origin
\* header, or the Referer header when there is no Origin, contains no
\* allow-listed entry.
C31_OriginThenReferer ==
    \A r \in Slots :
        ( /\ handler \in {"part_002", "part_001", "cerebras_2"}
          /\ Done(r)
          /\ ~(handler \in HandlesOptions /\ req[r].q.method = "OPTIONS") )
        => ( OriginDeniedResponse(r)
               <=> \A a \in AllowedOrigins(handler) : ~Includes(ChosenOrigin(r), a) )

\* A request denied for its Origin although its Referer is allow-listed.
C31_Witness ==
    \E r \in Slots :
        /\ handler \in {"part_002", "part_001", "cerebras_2"}
        /\ Done(r) /\ req[r].q.method # "OPTIONS"
        /\ Origin(r) = EvilOrigin
        /\ \E a \in AllowedOrigins(handler) : Includes(Referer(r), a)
        /\ OriginDeniedResponse(r)

InGate(r) == req[r].pc = "cooldown"

\* How long a request has been, or was, suspended in waitForCooldown, by
\* Date.now().
Suspension(r) ==
    IF InGate(r) THEN now - req[r].startTime ELSE req[r].stamped - req[r].startTime

\* C32, as claimed: a request suspended in waitForCooldown has not been
\* through the gate before and is suspended for at most RATE_LIMIT_DURATION
\* milliseconds: no request is in the gate longer than that, and none has left
\* it later than that after its arrival.
C32_SuspendedAtMostD ==
    \A r \in Slots :
        /\ InGate(r) => req[r].stamped = 0
        /\ (InGate(r) \/ (Started(r) /\ req[r].wakeAt > 0))
              => Suspension(r) <= RATE_LIMIT_DURATION(handler)

\* C32, amended: a request suspended in waitForCooldown has not been through
\* the gate before, the timer it waits for is set to at most
\* RATE_LIMIT_DURATION after its arrival, a request that was suspended left
\* the gate when its timer ran (which the clock may show up to TimerSlack
\* before the time the timer was set for, and any time after it), and every
\* suspended request eventually leaves the gate and goes on to the statements
\* after it, whatever the other requests do.
C32_CooldownEnds ==
    /\ [](\A r \in Slots :
            /\ InGate(r) => /\ req[r].stamped = 0
                            /\ req[r].sent = << >>
                            /\ req[r].wakeAt > req[r].startTime
                            /\ req[r].wakeAt - req[r].startTime
                                  <= RATE_LIMIT_DURATION(handler)
            /\ (Started(r) /\ ~InGate(r) /\ req[r].wakeAt > 0)
                  => req[r].stamped >= req[r].wakeAt - TimerSlack)
    /\ \A r \in Slots :
          InGate(r) ~> (~InGate(r) /\ req[r].stamped >= req[r].wakeAt - TimerSlack)

\* A request whose timer was set for a moment between two beats, behind a
\* request of its key that had waited itself, has left the gate when the clock
\* read TimerSlack less than that moment and has been dispatched, while
\* another request of its key is still suspended.
C32_Witness ==
    \E r \in Slots :
        /\ req[r].wakeAt > req[r].startTime
        /\ (req[r].wakeAt - StartTime) % TickMs(handler) # 0
        /\ req[r].stamped = req[r].wakeAt - TimerSlack
        /\ req[r].sent # << >>
        /\ \E r2 \in Slots \ {r} : req[r2].pc = "cooldown" /\ req[r2].ip = req[r].ip

ForwardedFor(r) == HGet(req[r].q.headers, "x-forwarded-for")

\* The client a request of one hop comes from.
Client(r) == IF ForwardedFor(r) = Null THEN UnknownIP ELSE ForwardedFor(r)

\* What a step does to the gate's maps and to an arriving request.
KeysIndependentStep ==
    /\ \A k \in Keys :
          ( \/ ipLastRequestMap'[k] # ipLastRequestMap[k]
            \/ ipRequestCountMap'[k] # ipRequestCountMap[k] )
          => \E r \in Slots : req'[r] # req[r] /\ Client(r)' = k
    /\ \A r \in Slots :
          (req[r].pc \in {"idle", "done"} /\ req'[r] # req[r])
          => LET last == ipLastRequestMap[Client(r)'] IN
             IF now - last < RATE_LIMIT_DURATION(handler)
             THEN InGate(r)' /\ req'[r].wakeAt = last + RATE_LIMIT_DURATION(handler)
             ELSE ~InGate(r)' /\ req'[r].stamped = now

\* C33: in the handlers with a cooldown gate a step of a request changes the
\* cooldown timestamp and the abuse counter of no client but its own, and an
\* arriving request is suspended exactly when its own client was stamped less
\* than RATE_LIMIT_DURATION ago, until that much time has passed since that
\* stamp, whatever requests of other clients are suspended.
C33_KeysIndependent == [][(handler \in UsesCooldown) => KeysIndependentStep]_vars

\* A request that was admitted on arrival while a request of another client,
\* which arrived no later, is still suspended.
C33_Witness ==
    \E r1, r2 \in Slots :
        /\ handler = "part_002"
        /\ Client(r1) # Client(r2)
        /\ InGate(r1) /\ Started(r2)
        /\ req[r2].startTime >= req[r1].startTime
        /\ req[r2].stamped = req[r2].startTime
        /\ req[r2].sent # << >>
        /\ ipRequestCountMap[Client(r2)].count >= 1

\* Request r, back from waitForCooldown, is counted in this step.
ObserveStep(r) ==
    /\ req'[r] # req[r]
    /\ req[r].pc = "gated"

\* What a step does to the abuse counter of key k.
CounterStep(k) ==
    LET counted == { r \in Slots : ObserveStep(r) /\ Client(r)' = k }
        old == ipRequestCountMap[k]
    IN  IF counted = {}
        THEN ipRequestCountMap'[k] = old
        ELSE IF old.count = 0 \/ now - old.firstRequestTime > MONITOR_PERIOD
             THEN ipRequestCountMap'[k] = [count |-> 1, firstRequestTime |-> now]
             ELSE ipRequestCountMap'[k] = [old EXCEPT !.count = @ + 1]

\* C34: in part_002 and the first together module every request that is
\* counted raises the stored count of its key by exactly one (or starts a new
\* window at one), and no other step of any request changes the stored
\* count, in particular not the return of an awaited notification: within a
\* window the stored count grows by n over n counted requests.
C34_NoLostIncrement ==
    [][(handler \in CountsRequests) => \A k \in Keys : CounterStep(k)]_vars

\* A request was counted and went on while an earlier request of its key
\* was suspended in the awaited notification.
C34_Witness ==
    \E r1, r2 \in Slots :
        /\ handler \in CountsRequests
        /\ Client(r1) = Client(r2)
        /\ req[r1].pc = "notifying"
        /\ req[r2].stored.count = req[r1].stored.count + 1
        /\ req[r2].sent # << >>
        /\ ipRequestCountMap[Client(r1)] = req[r2].stored

\* The first entry of the forwarded-for chain, 'unknown-ip' without one.
FirstHop(r) == IF ForwardedFor(r) = Null THEN UnknownIP ELSE S(ForwardedFor(r)[1])

\* C35: in part_001, part_002 and the first together module the client key
\* of a request is the first hop of its x-forwarded-for chain, so a request
\* whose first hop is banned is answered 403 and not dispatched whatever
\* hops follow (unless the origin check has denied it before).
C35_FirstHopKey ==
    \A r \in Slots :
        ( /\ handler \in {"part_001", "part_002", "together_1"}
          /\ Started(r) /\ req[r].q.method # "OPTIONS" )
        => /\ req[r].ip = FirstHop(r)
           /\ (Done(r) /\ FirstHop(r) \in BANNED_IPS(handler))
                => /\ req[r].resp.status = 403
                   /\ req[r].sent = << >>

\* Request r has been rejected for its rate: it is answered 429, or is about
\* to be once the country of its client is known.
Rejected(r) ==
    \/ req[r].resp.status = 429
    \/ req[r].pc = "locating" /\ req[r].caught.status = 429

\* What a step does to requestTimes and to an arriving request.
RejectingLimiterStep ==
    /\ \A r \in Slots :
          (req[r].pc \in {"idle", "done"} /\ req'[r] # req[r])
          => LET k == Client(r)' IN
             IF now - requestTimes[k] < RATE_LIMIT_DURATION(handler)
             THEN /\ Rejected(r)'
                  /\ req'[r].stamped = 0 /\ req'[r].sent = << >>
                  /\ requestTimes' = requestTimes
             ELSE /\ ~Rejected(r)'
                  /\ req'[r].stamped = now
                  /\ requestTimes' = [requestTimes EXCEPT ![k] = now]
    /\ (\A r \in Slots : req[r].pc \notin {"idle", "done"} \/ req'[r] = req[r])
          => requestTimes' = requestTimes

\* C36: in part_001 and the second cerebras module two admitted requests of
\* one key carry timestamps at least RATE_LIMIT_DURATION apart; an arriving
\* request is rejected, leaving requestTimes as it is, exactly when less than
\* that has passed since the stored timestamp of its key, and is admitted and
\* stamped otherwise; and only admissions write requestTimes.
C36_RejectingLimiter ==
    /\ [](\A r1, r2 \in Slots :
            ( /\ handler \in UsesRateLimit /\ r1 # r2
              /\ req[r1].stamped > 0 /\ req[r2].stamped > 0
              /\ Client(r1) = Client(r2) )
            => \/ req[r1].stamped - req[r2].stamped >= RATE_LIMIT_DURATION(handler)
               \/ req[r2].stamped - req[r1].stamped >= RATE_LIMIT_DURATION(handler))
    /\ [][(handler \in UsesRateLimit) => RejectingLimiterStep]_vars

\* A request admitted exactly one window after the admitted request of its
\* key whose timestamp it read.
C36_Witness ==
    \E r1, r2 \in Slots :
        /\ handler \in UsesRateLimit /\ r1 # r2
        /\ Client(r1) = Client(r2)
        /\ req[r1].stamped > 0
        /\ req[r2].lastRequestTime = req[r1].stamped
        /\ req[r2].stamped = req[r1].stamped + RATE_LIMIT_DURATION(handler)
        /\ req[r2].sent # << >>

\* The response of request r, returned or being prepared, is a denial by the
\* origin check or the ban list.
Denied(r) ==
    \/ \E x \in {req[r].resp, req[r].pending} :
          x.status = 403 /\ x.body \in OriginDenialBodies \cup BanDenialBodies
    \/ req[r].caught.status = 403

\* A step of a request that is denied leaves the limiter's maps alone.
DeniedStep ==
    \A r \in Slots :
        (req'[r] # req[r] /\ Denied(r)')
        => /\ req'[r].sent = << >>
           /\ req'[r].stamped = 0
           /\ ipLastRequestMap' = ipLastRequestMap
           /\ requestTimes' = requestTimes
           /\ ipRequestCountMap' = ipRequestCountMap

\* C37: in part_002, part_001 and the first together module a request that
\* the origin check or the ban list denies is not dispatched to the
\* upstream, at the denial or later, and none of its steps changes a cooldown
\* timestamp, a rate-limit timestamp or an abuse counter.
C37_DenialIsFinal ==
    [][(handler \in {"part_002", "part_001", "together_1"}) => DeniedStep]_vars

\* A banned client was denied although its key was free to pass the limiter,
\* and the limiter holds nothing of it.
C37_Witness ==
    \E r \in Slots :
        /\ handler \in {"part_002", "part_001", "together_1"}
        /\ Done(r) /\ Denied(r)
        /\ req[r].resp.body \in BanDenialBodies
        /\ ipLastRequestMap[req[r].ip] = 0 /\ requestTimes[req[r].ip] = 0
        /\ ipRequestCountMap[req[r].ip] = NoCount
        /\ req[r].sent = << >>

\* C38: in part_002, part_001 and the first and third cerebras modules every
\* audit record of an answered request that stores a response status stores
\* the status that was returned to the client.
C38_LoggedStatusIsReturned ==
    \A r \in Slots :
        ( /\ handler \in {"part_002", "part_001", "cerebras_1", "cerebras_3"}
          /\ Done(r) /\ ~req[r].thrown )
        => \A i \in DOMAIN req[r].logs :
              req[r].logs[i].response_status # 0
              => req[r].logs[i].response_status = req[r].resp.status
====
